---------------------------- MODULE Spec2Model ----------------------------
(***************************************************************************)
(* Sonotecture front end: the pose tracking, spatial filtering and         *)
(* sonification scheduling of src/app/page.tsx and                         *)
(* src/app/components/MapWithGeoJson.tsx.                                  *)
(*                                                                         *)
(* The two source files each hold two versions of their component.  One    *)
(* of three components is mounted in a session (variable mounted):         *)
(*   "LocationDisplay"  page.tsx 4-129: thresholded position and heading   *)
(*   "MapDirectional"   MapWithGeoJson.tsx 16-238: heading cone filter     *)
(*   "MapSonify"        MapWithGeoJson.tsx 258-480: 8 km filter and tones  *)
(*                                                                         *)
(* Numbers.  Degrees (latitude, longitude, heading, bearing) are integers  *)
(* in units of 1/Deg degree.  The doubles of the trigonometric code are    *)
(* fixed-point integers in units of 1/FX; a product is computed limb-wise  *)
(* so that no intermediate value leaves the 32-bit integers of TLC.        *)
(* Distances are metres.  Times are milliseconds.                          *)
(***************************************************************************)
EXTENDS Integers, Sequences, FiniteSets, TLC

VARIABLES
  mounted,                \* the component of this session
  platform,               \* what the browser offers (navigator, window)
  latitude, longitude,    \* useState latitude, longitude
  heading,                \* useState heading
  error,                  \* useState error
  viewState,              \* useState viewState (the map components)
  geojsonData,            \* useState geojsonData
  fetchPending,           \* the fetch of the mount effect has not settled
  filteredBuildings,      \* useState filteredBuildings
  iOSPermissionRequested, \* useState iOSPermissionRequested
  permission,             \* DeviceOrientationEvent.requestPermission(): its promise
  orientationListeners,   \* number of registered deviceorientation listeners
  geolocationWatches,     \* number of watchPosition watches not yet cleared
  unmounted,              \* the component has unmounted and its cleanups have run
  timers,                 \* pending setTimeout callbacks of generateMusicFromBuildings
  scheduled,              \* per call of generateMusicFromBuildings, the events it scheduled
  fired,                  \* the playSound calls made so far, in order
  delivered               \* the sensor sample handled by the last step

vars == <<mounted, platform, latitude, longitude, heading, error, viewState,
          geojsonData, fetchPending, filteredBuildings, iOSPermissionRequested,
          permission, orientationListeners, geolocationWatches, unmounted,
          timers, scheduled, fired, delivered>>

-----------------------------------------------------------------------------
(* Scales and JavaScript values *)

Deg == 10^6          \* one degree
FX == 10^8           \* one, in fixed point
Limb == 10^4         \* FX = Limb * Limb

\* null / undefined: outside every numeric domain of the model
Null == -(10^9)
\* the truthiness test of `if (v)`, `!v` and `a && b` on a number or null
Truthy(v) == v # Null /\ v # 0

Abs(v) == IF v < 0 THEN -v ELSE v
Sign(v) == IF v < 0 THEN -1 ELSE 1

-----------------------------------------------------------------------------
(* Fixed-point arithmetic for the Math functions of calculateDistance and   *)
(* calculateBearing.  Every operator is odd or even in its argument exactly *)
(* as the function it stands for.                                           *)

MulNat(a, b) ==
  (a \div Limb) * (b \div Limb)
  + ((a \div Limb) * (b % Limb) + (a % Limb) * (b \div Limb)) \div Limb
  + ((a % Limb) * (b % Limb)) \div FX

\* a * b
Mul(a, b) == Sign(a) * Sign(b) * MulNat(Abs(a), Abs(b))

RECURSIVE DivDigits(_, _, _, _)
DivDigits(r, b, k, acc) ==
  IF k = 0 THEN acc
  ELSE DivDigits((r * 10) % b, b, k - 1, acc * 10 + (r * 10) \div b)

\* a / b for 0 <= a, 0 < b
DivNat(a, b) ==
  IF b > 2 * FX
  THEN DivDigits((a \div 2) % (b \div 2), b \div 2, 8, (a \div 2) \div (b \div 2))
  ELSE DivDigits(a % b, b, 8, a \div b)

\* x / 2
Half(x) == Mul(x, FX \div 2)

MathPI == 314159265

\* sum of term - term*x2/(k(k+1)) + ...: the Taylor series of sin and cos
RECURSIVE TaylorSeries(_, _, _, _)
TaylorSeries(x2, term, k, acc) ==
  IF term = 0 \/ k > 21 THEN acc
  ELSE TaylorSeries(x2, -(Sign(term) * (MulNat(Abs(term), x2) \div (k * (k + 1)))),
                    k + 2, acc + term)

SinSmall(x) == Sign(x) * TaylorSeries(Mul(x, x), Abs(x), 2, 0)
CosSmall(x) == TaylorSeries(Mul(x, x), FX, 1, 0)

\* Math.sin, Math.cos for -pi <= x <= pi
MathSin(x) ==
  IF Abs(x) > MathPI \div 2 THEN Sign(x) * SinSmall(MathPI - Abs(x))
  ELSE SinSmall(x)
MathCos(x) ==
  IF Abs(x) > MathPI \div 2 THEN -CosSmall(MathPI - Abs(x))
  ELSE CosSmall(x)

RECURSIVE SqrtIter(_, _, _)
SqrtIter(a, lo, hi) ==
  IF hi - lo <= 1 THEN lo
  ELSE IF MulNat((lo + hi) \div 2, (lo + hi) \div 2) <= a
       THEN SqrtIter(a, (lo + hi) \div 2, hi)
       ELSE SqrtIter(a, lo, (lo + hi) \div 2)

\* Math.sqrt for 0 <= a <= 4
MathSqrt(a) == IF a <= 0 THEN 0 ELSE SqrtIter(a, 0, 2 * FX + 1)

RECURSIVE AtanSeries(_, _, _, _)
AtanSeries(t2, pow, k, acc) ==
  IF pow = 0 \/ k > 25 THEN acc
  ELSE AtanSeries(t2, -Mul(pow, t2), k + 2, acc + Sign(pow) * (Abs(pow) \div k))

\* tan(atan(t)/2) for 0 <= t <= 1
AtanHalve(t) == DivNat(t, FX + MathSqrt(FX + Mul(t, t)))
\* atan(t) for 0 <= t <= 1
AtanUnit(t) ==
  4 * AtanSeries(Mul(AtanHalve(AtanHalve(t)), AtanHalve(AtanHalve(t))),
                 AtanHalve(AtanHalve(t)), 1, 0)
AtanPos(y, x) ==
  IF y <= x THEN AtanUnit(DivNat(y, x))
  ELSE MathPI \div 2 - AtanUnit(DivNat(x, y))

\* Math.atan2, in (-pi, pi]; atan2(0, 0) = 0
MathAtan2(y, x) ==
  IF x = 0 /\ y = 0 THEN 0
  ELSE IF x >= 0 /\ y >= 0 THEN AtanPos(y, x)
  ELSE IF x < 0 /\ y >= 0 THEN MathPI - AtanPos(y, -x)
  ELSE IF x < 0 THEN AtanPos(-y, -x) - MathPI
  ELSE -AtanPos(-y, x)

\* Math.PI / 180, per unit of 1/Deg degree
RadPerDeg == 174532925
\* 180 / Math.PI, in units of 1/Deg degree
DegPerRad == 57295780

toRadians(deg) == Mul(deg, RadPerDeg)
toDegrees(rad) == Mul(rad, DegPerRad)

\* Earth radius, km
R == 6371

\* great-circle distance, in metres
calculateDistance(lat1, lon1, lat2, lon2) ==
  LET dLat == toRadians(lat2 - lat1)
      dLon == toRadians(lon2 - lon1)
      a == Mul(MathSin(Half(dLat)), MathSin(Half(dLat)))
           + Mul(Mul(Mul(MathCos(toRadians(lat1)), MathCos(toRadians(lat2))),
                     MathSin(Half(dLon))),
                 MathSin(Half(dLon)))
      c == 2 * MathAtan2(MathSqrt(a), MathSqrt(FX - a))
  IN  Mul(R * 1000, c)

\* calculateBearing without the normalisation (... + 360) % 360
calculateBearingRaw(lat1, lon1, lat2, lon2) ==
  LET dLon == toRadians(lon2 - lon1)
      y == Mul(MathSin(dLon), MathCos(toRadians(lat2)))
      x == Mul(MathCos(toRadians(lat1)), MathSin(toRadians(lat2)))
           - Mul(Mul(MathSin(toRadians(lat1)), MathCos(toRadians(lat2))),
                 MathCos(dLon))
  IN  toDegrees(MathAtan2(y, x))

\* forward azimuth from (lat1, lon1) to (lat2, lon2), in [0, 360) degrees
calculateBearing(lat1, lon1, lat2, lon2) ==
  LET dLon == toRadians(lon2 - lon1)
      y == Mul(MathSin(dLon), MathCos(toRadians(lat2)))
      x == Mul(MathCos(toRadians(lat1)), MathSin(toRadians(lat2)))
           - Mul(Mul(MathSin(toRadians(lat1)), MathCos(toRadians(lat2))),
                 MathCos(dLon))
  IN  (toDegrees(MathAtan2(y, x)) + 360 * Deg) % (360 * Deg)


-----------------------------------------------------------------------------
(* Program constants *)

\* INITIAL_VIEW_STATE.latitude, .longitude, .bearing (both map components)
InitialLatitude == 35689500
InitialLongitude == 139691700
InitialBearing == 0
\* altitudeOffset of MapDirectional: 0.000009 degree
altitudeOffset == 9
\* the cone of MapDirectional, degrees
range == 30
\* the radius of MapSonify, km
RadiusKm == 8
\* frequency = 100 + height * 2
BasePitch == 100
PitchPerMetre == 2
\* duration = 0.5 s, and the timer delay index * 500 ms
NoteDurationMs == 500
NoteSpacingMs == 500
\* thresholds of LocationDisplay: 0.0001 degree and 1 degree
positionThreshold == 100
headingThreshold == 1000000

IsMap(m) == m \in {"MapDirectional", "MapSonify"}
Components == {"LocationDisplay", "MapDirectional", "MapSonify"}

InitialViewState(m) ==
  [latitude |-> InitialLatitude, longitude |-> InitialLongitude,
   zoom |-> IF m = "MapDirectional" THEN 40 ELSE 12,
   bearing |-> InitialBearing,
   pitch |-> IF m = "MapDirectional" THEN 120 ELSE 0]
\* LocationDisplay has no view state
NoViewState == [latitude |-> Null, longitude |-> Null, zoom |-> Null,
                bearing |-> Null, pitch |-> Null]

\* the values of useState error (MapSonify words them in Japanese)
NoError == "null"
DatasetError == "Failed to load GeoJSON data"
LocationError(message) == "Location error: " \o message
GeolocationUnsupported == "Geolocation is not supported by this browser."
OrientationUnsupported == "Device orientation is not supported by this browser."
PermissionDenied == "Device orientation permission denied"
PermissionRejected == "Device orientation error"

-----------------------------------------------------------------------------
(* The environment: browsers, datasets and sensor samples *)

\* 'geolocation' in navigator; window.DeviceOrientationEvent;
\* typeof DeviceOrientationEvent.requestPermission === 'function'
Platforms ==
  { [geolocation |-> TRUE, orientationEvent |-> TRUE, requestPermission |-> FALSE],
    [geolocation |-> TRUE, orientationEvent |-> TRUE, requestPermission |-> TRUE],
    [geolocation |-> FALSE, orientationEvent |-> FALSE, requestPermission |-> FALSE] }

\* a Point feature (building.geojson of MapDirectional): coordinates = [lon, lat]
PointFeature(name, lat, lon, height) ==
  [geometry |-> [type |-> "Point", coordinates |-> <<lon, lat>>],
   properties |-> [name |-> name, height |-> height, measuredHeight |-> Null]]
\* a Polygon feature (building.geojson of MapSonify): coordinates = [ring], the
\* ring a sequence of [lon, lat]
PolygonFeature(name, lat, lon, height) ==
  [geometry |-> [type |-> "Polygon",
                 coordinates |-> << << <<lon, lat>>, <<lon + 100, lat>>,
                                       <<lon + 100, lat + 100>>, <<lon, lat>> >> >>],
   properties |-> [name |-> name, height |-> Null, measuredHeight |-> height]]

\* Buildings around the initial position: name, latitude, longitude, height (m).
\* Seen from the initial position: Home is at it; NNW is 5.6 km away at bearing
\* 350; North 5.6 km at bearing 0; East 4.7 km at bearing 90; FarNorth 22 km
\* at bearing 0.  NNW carries no height, FarNorth a height of 0.
Buildings ==
  << <<"Home", InitialLatitude, InitialLongitude, 50>>,
     <<"NNW", 35738700, 139681020, Null>>,
     <<"North", 35739500, InitialLongitude, 20>>,
     <<"East", InitialLatitude, 139741700, 5>>,
     <<"FarNorth", 35889500, InitialLongitude, 0>> >>

FeatureOf(m, b) ==
  IF m = "MapDirectional" THEN PointFeature(b[1], b[2], b[3], b[4])
  ELSE PolygonFeature(b[1], b[2], b[3], b[4])

\* what response.json() can return
Datasets(m) ==
  { [loaded |-> TRUE, features |-> <<FeatureOf(m, Buildings[1])>>],
    [loaded |-> TRUE, features |-> [i \in 1..Len(Buildings) |-> FeatureOf(m, Buildings[i])]] }
\* useState<any>(null)
NoData == [loaded |-> FALSE, features |-> <<>>]

\* position.coords of the map components' watchPosition: the initial position,
\* 0.15 degree north of it, and on the equator
MapPositions ==
  { <<InitialLatitude, InitialLongitude>>,
    <<35839500, InitialLongitude>>,
    <<0, InitialLongitude>> }
\* event.alpha of the map components
MapAlphas == {Null, 0, 10 * Deg, 350 * Deg}

\* position.coords of LocationDisplay's watchPosition
LocationLatitudes == {0, 50, 35000000, 35000050, 35000200}
LocationLongitudes == {0, 50, 139000000, 139000050}
\* event.alpha of LocationDisplay: 0, 0.2, 0.7, 2 and 359.5 degrees
LocationAlphas == {Null, 0, 200000, 700000, 2000000, 359500000}

\* err.message of a PositionError
PositionErrorMessages == {"User denied Geolocation"}

\* the step was no sensor callback
NoSample == [kind |-> "none"]
PositionSample(lat, lon) == [kind |-> "position", latitude |-> lat, longitude |-> lon]
OrientationSample(alpha) == [kind |-> "orientation", alpha |-> alpha]

-----------------------------------------------------------------------------
(* Bounds of the model *)

\* calls of generateMusicFromBuildings in a session
MaxRuns == 3

\* time advances by a quarter or a half second at a step
TickSteps == {250, 500}

-----------------------------------------------------------------------------
(* The filters *)

\* the point the code takes for a feature, as <<lat, lon>>
DirectionalCoords(feature) ==
  <<feature.geometry.coordinates[2], feature.geometry.coordinates[1]>>
SonifyCoords(feature) ==
  <<feature.geometry.coordinates[1][1][2], feature.geometry.coordinates[1][1][1]>>

\* calculateDistance and calculateBearing on the coordinates of the model,
\* evaluated once
GeoPairs ==
  { <<p[1], p[2], Buildings[i][2], Buildings[i][3]>> :
      p \in MapPositions, i \in 1..Len(Buildings) }
DistanceCache == [q \in GeoPairs |-> calculateDistance(q[1], q[2], q[3], q[4])]
BearingCache == [q \in GeoPairs |-> calculateBearing(q[1], q[2], q[3], q[4])]
Distance(lat1, lon1, lat2, lon2) == DistanceCache[<<lat1, lon1, lat2, lon2>>]
Bearing(lat1, lon1, lat2, lon2) == BearingCache[<<lat1, lon1, lat2, lon2>>]

\* MapDirectional: Math.abs(bearing - heading) <= range
InCone(feature, lat, lon, hd) ==
  Abs(Bearing(lat, lon, DirectionalCoords(feature)[1], DirectionalCoords(feature)[2]) - hd)
    <= range * Deg

\* MapSonify: distance <= 8
InRadius(feature, lat, lon) ==
  Distance(lat, lon, SonifyCoords(feature)[1], SonifyCoords(feature)[2])
    <= RadiusKm * 1000

\* geojsonData.features.filter(...) of MapDirectional
RECURSIVE directionalFilter(_, _, _, _)
directionalFilter(features, lat, lon, hd) ==
  IF features = <<>> THEN <<>>
  ELSE (IF InCone(Head(features), lat, lon, hd) THEN <<Head(features)>> ELSE <<>>)
       \o directionalFilter(Tail(features), lat, lon, hd)

\* radiusFilter with the selected buildings collected in reverse
RECURSIVE radiusFilterReversed(_, _, _)
radiusFilterReversed(features, lat, lon) ==
  IF features = <<>> THEN <<>>
  ELSE radiusFilterReversed(Tail(features), lat, lon)
       \o (IF InRadius(Head(features), lat, lon) THEN <<Head(features)>> ELSE <<>>)

\* geojsonData.features.filter(...) of MapSonify
RECURSIVE radiusFilter(_, _, _)
radiusFilter(features, lat, lon) ==
  IF features = <<>> THEN <<>>
  ELSE (IF InRadius(Head(features), lat, lon) THEN <<Head(features)>> ELSE <<>>)
       \o radiusFilter(Tail(features), lat, lon)

\* the filter effect of MapDirectional: the value of filteredBuildings after it
DirectionalEffect(data, lat, lon, hd, old) ==
  IF data.loaded /\ Truthy(lat) /\ Truthy(lon) /\ hd # Null
  THEN directionalFilter(data.features, lat, lon, hd)
  ELSE old

-----------------------------------------------------------------------------
(* Sonification *)

\* Frequency without the scale of 2
FrequencyUnscaled(height) == BasePitch + height
\* frequency = 100 + height * 2
Frequency(height) == BasePitch + height * PitchPerMetre
\* TimerDelay with tones 400 ms apart
TimerDelayShort(index) == index * 400
\* setTimeout(..., index * 500)
TimerDelay(index) == index * NoteSpacingMs

\* buildings.forEach((building, index) => ...): the events of one call, in the
\* order of the setTimeout calls; index counts from 0
RECURSIVE MusicEvents(_, _)
MusicEvents(buildings, index) ==
  IF index >= Len(buildings) THEN <<>>
  ELSE (IF Truthy(buildings[index + 1].properties.measuredHeight)
        THEN << [index |-> index,
                 frequency |-> Frequency(buildings[index + 1].properties.measuredHeight),
                 duration |-> NoteDurationMs,
                 offsetMs |-> TimerDelay(index)] >>
        ELSE <<>>)
       \o MusicEvents(buildings, index + 1)
generateMusicFromBuildings(buildings) == MusicEvents(buildings, 0)

\* TimersOf that sets the timer of the first event alone
TimersOfFirst(run, events) ==
  { [run |-> run, index |-> events[i].index, frequency |-> events[i].frequency,
     duration |-> events[i].duration, remaining |-> events[i].offsetMs] :
      i \in 1..(IF events = <<>> THEN 0 ELSE 1) }
\* the timers one call registers
TimersOf(run, events) ==
  { [run |-> run, index |-> events[i].index, frequency |-> events[i].frequency,
     duration |-> events[i].duration, remaining |-> events[i].offsetMs] :
      i \in 1..Len(events) }

-----------------------------------------------------------------------------
(* Rendering: the effects that follow a change of state *)

DepsChanged(data, lat, lon, hd) ==
  <<data, lat, lon, hd>> # <<geojsonData, latitude, longitude, heading>>

\* the filter effect of MapSonify runs and finds data: a call of
\* generateMusicFromBuildings follows
StartsRun(data, lat, lon, hd) ==
  mounted = "MapSonify" /\ DepsChanged(data, lat, lon, hd) /\ data.loaded

\* The filter effect of the map components, run after a render in which one of
\* [geojsonData, latitude, longitude, heading] has changed.
FilterEffect(data, lat, lon, hd) ==
  IF ~DepsChanged(data, lat, lon, hd)
  THEN UNCHANGED <<filteredBuildings, timers, scheduled>>
  ELSE IF mounted = "MapDirectional"
  THEN /\ filteredBuildings' = DirectionalEffect(data, lat, lon, hd, filteredBuildings)
       /\ UNCHANGED <<timers, scheduled>>
  ELSE IF data.loaded
  THEN /\ filteredBuildings' = radiusFilter(data.features, lat, lon)
       /\ scheduled' = Append(scheduled,
                              generateMusicFromBuildings(radiusFilter(data.features, lat, lon)))
       /\ timers' = timers \cup
                    TimersOf(Len(scheduled) + 1,
                             generateMusicFromBuildings(radiusFilter(data.features, lat, lon)))
  ELSE UNCHANGED <<filteredBuildings, timers, scheduled>>

-----------------------------------------------------------------------------
(* The state after the component has mounted and its mount effects have run *)

\* setError calls of the mount effects, the last one winning
MountError(m, pf) ==
  IF m = "LocationDisplay" /\ ~pf.orientationEvent THEN OrientationUnsupported
  ELSE IF ~pf.geolocation THEN GeolocationUnsupported
  ELSE NoError

Init ==
  \E m \in Components, pf \in Platforms :
    /\ mounted = m
    /\ platform = pf
    /\ latitude = IF IsMap(m) THEN InitialLatitude ELSE Null
    /\ longitude = IF IsMap(m) THEN InitialLongitude ELSE Null
    /\ heading = IF IsMap(m) THEN InitialBearing ELSE Null
    /\ error = MountError(m, pf)
    /\ viewState = IF IsMap(m) THEN InitialViewState(m) ELSE NoViewState
    /\ geojsonData = NoData
    /\ fetchPending = IsMap(m)
    /\ filteredBuildings = <<>>
    /\ iOSPermissionRequested = FALSE
    \* LocationDisplay asks for the orientation events in its mount effect
    /\ permission = IF m = "LocationDisplay" /\ pf.orientationEvent /\ pf.requestPermission
                    THEN "pending" ELSE "none"
    /\ orientationListeners =
         IF m = "LocationDisplay" /\ pf.orientationEvent /\ ~pf.requestPermission
         THEN 1 ELSE 0
    /\ geolocationWatches = IF pf.geolocation THEN 1 ELSE 0
    /\ unmounted = FALSE
    /\ timers = {}
    /\ scheduled = <<>>
    /\ fired = <<>>
    /\ delivered = NoSample

sensorVars == <<iOSPermissionRequested, permission, orientationListeners,
                geolocationWatches, unmounted>>
runVars == <<timers, scheduled, fired>>
mapVars == <<viewState, geojsonData, fetchPending, filteredBuildings>>

-----------------------------------------------------------------------------
(* The map components.  The DeckGL controller (onViewStateChange, which    *)
(* moves the camera alone) is the renderer's and is not modelled.          *)

\* fetchGeoJson: the response is ok and parsed
FetchResolved ==
  \E data \in Datasets(mounted) :
    /\ IsMap(mounted) /\ fetchPending /\ ~unmounted
    /\ StartsRun(data, latitude, longitude, heading) => Len(scheduled) < MaxRuns
    /\ geojsonData' = data
    /\ fetchPending' = FALSE
    /\ FilterEffect(data, latitude, longitude, heading)
    /\ delivered' = NoSample
    /\ UNCHANGED <<mounted, platform, latitude, longitude, heading, error, viewState,
                   sensorVars, fired>>

\* fetchGeoJson: the catch branch
FetchFailed ==
  /\ IsMap(mounted) /\ fetchPending /\ ~unmounted
  /\ fetchPending' = FALSE
  /\ error' = DatasetError
  /\ delivered' = NoSample
  /\ UNCHANGED <<mounted, platform, latitude, longitude, heading, viewState, geojsonData,
                 filteredBuildings, sensorVars, runVars>>

\* the success callback of watchPosition
MapWatchPosition ==
  \E p \in MapPositions :
    /\ IsMap(mounted) /\ geolocationWatches > 0
    /\ StartsRun(geojsonData, p[1], p[2], heading) => Len(scheduled) < MaxRuns
    /\ latitude' = p[1]
    /\ longitude' = p[2]
    /\ viewState' = [viewState EXCEPT
                       !.latitude = IF mounted = "MapDirectional"
                                    THEN p[1] + altitudeOffset ELSE p[1],
                       !.longitude = p[2]]
    /\ FilterEffect(geojsonData, p[1], p[2], heading)
    /\ delivered' = PositionSample(p[1], p[2])
    /\ UNCHANGED <<mounted, platform, heading, error, geojsonData, fetchPending,
                   sensorVars, fired>>

\* the error callback of watchPosition (all three components)
WatchPositionError ==
  \E message \in PositionErrorMessages :
    /\ geolocationWatches > 0
    /\ error' = LocationError(message)
    /\ delivered' = NoSample
    /\ UNCHANGED <<mounted, platform, latitude, longitude, heading, mapVars,
                   sensorVars, runVars>>

\* the button: handleOrientationPermission up to its await
handleOrientationPermission ==
  /\ IsMap(mounted) /\ ~iOSPermissionRequested /\ ~unmounted
  \* MapDirectional renders "Loading..." and no button until the data is there
  /\ mounted = "MapDirectional" => geojsonData.loaded
  /\ iOSPermissionRequested' = TRUE
  /\ IF ~platform.orientationEvent
     THEN UNCHANGED <<permission, orientationListeners>>
     ELSE IF platform.requestPermission
     THEN permission' = "pending" /\ UNCHANGED orientationListeners
     ELSE orientationListeners' = orientationListeners + 1 /\ UNCHANGED permission
  /\ delivered' = NoSample
  /\ UNCHANGED <<mounted, platform, latitude, longitude, heading, error, mapVars, runVars,
                 geolocationWatches, unmounted>>

\* requestPermission() settles: granted, denied, or rejected (the catch branch).
\* The continuation runs whether or not the component is still there; React
\* drops the setError of a component that has unmounted.
PermissionSettled ==
  \E outcome \in {"granted", "denied", "rejected"} :
    /\ permission = "pending"
    /\ permission' = outcome
    /\ IF outcome = "granted"
       THEN orientationListeners' = orientationListeners + 1 /\ UNCHANGED error
       ELSE /\ error' = IF unmounted THEN error
                        ELSE IF mounted = "LocationDisplay" /\ outcome = "rejected"
                        THEN PermissionRejected ELSE PermissionDenied
            /\ UNCHANGED orientationListeners
    /\ delivered' = NoSample
    /\ UNCHANGED <<mounted, platform, latitude, longitude, heading, mapVars,
                   iOSPermissionRequested, runVars, geolocationWatches, unmounted>>

\* HasAlpha that lets every sample through
HasAlphaAlways(alpha) == TRUE
\* event.alpha !== null (&& typeof event.alpha === 'number')
HasAlpha(alpha) == alpha # Null

\* handleOrientation of the map components.  A listener left behind by a
\* component that has unmounted still runs, but React drops its state updates:
\* such a call changes nothing.
MapHandleOrientation ==
  \E alpha \in MapAlphas :
    /\ IsMap(mounted) /\ orientationListeners > 0 /\ ~unmounted
    /\ HasAlpha(alpha) /\ StartsRun(geojsonData, latitude, longitude, alpha)
         => Len(scheduled) < MaxRuns
    /\ IF HasAlpha(alpha)
       THEN /\ heading' = alpha
            /\ viewState' = [viewState EXCEPT !.bearing = alpha]
            /\ FilterEffect(geojsonData, latitude, longitude, alpha)
       ELSE UNCHANGED <<heading, viewState, filteredBuildings, timers, scheduled>>
    /\ delivered' = OrientationSample(alpha)
    /\ UNCHANGED <<mounted, platform, latitude, longitude, error, geojsonData,
                   fetchPending, sensorVars, fired>>

\* a timer of generateMusicFromBuildings is due: playSound(frequency, duration).
\* Timers due at the same time run in the order they were set.
PlaySound ==
  \E t \in timers :
    /\ t.remaining = 0
    /\ \A u \in timers :
         u.remaining = 0 =>
           (t.run < u.run \/ (t.run = u.run /\ t.index <= u.index))
    /\ timers' = timers \ {t}
    /\ fired' = Append(fired, [run |-> t.run, index |-> t.index,
                               frequency |-> t.frequency, duration |-> t.duration])
    /\ delivered' = NoSample
    /\ UNCHANGED <<mounted, platform, latitude, longitude, heading, error, mapVars,
                   sensorVars, scheduled>>

\* time passes, never beyond a timer that is due
Tick ==
  \E d \in TickSteps :
    /\ timers # {}
    /\ \A t \in timers : t.remaining >= d
    /\ timers' = { [t EXCEPT !.remaining = @ - d] : t \in timers }
    /\ delivered' = NoSample
    /\ UNCHANGED <<mounted, platform, latitude, longitude, heading, error, mapVars,
                   sensorVars, scheduled, fired>>

-----------------------------------------------------------------------------
(* LocationDisplay *)

\* The success callback of watchPosition.  The effect subscribes again after
\* every change of latitude or longitude, so the callback compares with the
\* current state.
LocationWatchPosition ==
  \E newLatitude \in LocationLatitudes, newLongitude \in LocationLongitudes :
    /\ mounted = "LocationDisplay" /\ geolocationWatches > 0
    /\ latitude' = IF ~Truthy(latitude) \/ Abs(newLatitude - latitude) > positionThreshold
                   THEN newLatitude ELSE latitude
    /\ longitude' = IF ~Truthy(longitude) \/ Abs(newLongitude - longitude) > positionThreshold
                    THEN newLongitude ELSE longitude
    /\ delivered' = PositionSample(newLatitude, newLongitude)
    /\ UNCHANGED <<mounted, platform, heading, error, mapVars, sensorVars, runVars>>

\* handleOrientation, and the orientation effect that runs again when heading
\* has changed: its cleanup removes the listener; requestPermission() adds the
\* new one at once, or after the promise where the browser has one.
LocationHandleOrientation ==
  \E alpha \in LocationAlphas :
    /\ mounted = "LocationDisplay" /\ orientationListeners > 0 /\ ~unmounted
    /\ IF HasAlpha(alpha) /\ (~Truthy(heading) \/ Abs(alpha - heading) > headingThreshold)
       THEN /\ heading' = alpha
            /\ IF alpha # heading /\ platform.requestPermission
               THEN permission' = "pending" /\ orientationListeners' = 0
               ELSE UNCHANGED <<permission, orientationListeners>>
       ELSE UNCHANGED <<heading, permission, orientationListeners>>
    /\ delivered' = OrientationSample(alpha)
    /\ UNCHANGED <<mounted, platform, latitude, longitude, error, mapVars,
                   iOSPermissionRequested, runVars, geolocationWatches, unmounted>>

-----------------------------------------------------------------------------

\* The component unmounts and the cleanups of its effects run: clearWatch in
\* all three components, removeEventListener in LocationDisplay alone.  The
\* map components never remove their listener; no component clears a timer or
\* abandons a pending requestPermission().
Unmount ==
  /\ ~unmounted
  /\ unmounted' = TRUE
  /\ geolocationWatches' = 0
  /\ orientationListeners' = IF mounted = "LocationDisplay" THEN 0 ELSE orientationListeners
  /\ delivered' = NoSample
  /\ UNCHANGED <<mounted, platform, latitude, longitude, heading, error, mapVars,
                 iOSPermissionRequested, permission, runVars>>

Next ==
  \/ FetchResolved
  \/ FetchFailed
  \/ MapWatchPosition
  \/ WatchPositionError
  \/ handleOrientationPermission
  \/ PermissionSettled
  \/ MapHandleOrientation
  \/ PlaySound
  \/ Tick
  \/ LocationWatchPosition
  \/ LocationHandleOrientation
  \/ Unmount

Spec == Init /\ [][Next]_vars

\* The event loop runs a timer that is due, and time does not stop.
FairSpec == Spec /\ WF_vars(PlaySound) /\ WF_vars(Tick)

-----------------------------------------------------------------------------
(* Notions of the specification that the properties below are stated in *)

\* the last call of generateMusicFromBuildings
LastRun == scheduled[Len(scheduled)]

\* min(|a - b|, 360 - |a - b|) for a, b in [0, 360)
CircularDistance(a, b) ==
  IF Abs(a - b) <= 360 * Deg - Abs(a - b) THEN Abs(a - b) ELSE 360 * Deg - Abs(a - b)

\* the FilterPolicy a map component stands for
Policy(m) ==
  [radiusKm |-> 8, directional |-> (m = "MapDirectional"), coneHalfWidthDeg |-> 30]

\* the point of a feature, as <<lat, lon>>
PointOf(feature) ==
  IF feature.geometry.type = "Point" THEN DirectionalCoords(feature)
  ELSE SonifyCoords(feature)

\* the selection predicate of the specification; hd = Null is an absent heading
Selected(feature, lat, lon, hd, policy) ==
  /\ Distance(lat, lon, PointOf(feature)[1], PointOf(feature)[2]) <= policy.radiusKm * 1000
  /\ \/ ~policy.directional
     \/ hd = Null
     \/ CircularDistance(Bearing(lat, lon, PointOf(feature)[1], PointOf(feature)[2]), hd)
          <= policy.coneHalfWidthDeg * Deg

RECURSIVE SelectedSeq(_, _, _, _, _)
SelectedSeq(features, lat, lon, hd, policy) ==
  IF features = <<>> THEN <<>>
  ELSE (IF Selected(Head(features), lat, lon, hd, policy) THEN <<Head(features)>> ELSE <<>>)
       \o SelectedSeq(Tail(features), lat, lon, hd, policy)

\* s can be obtained from t by deleting elements
RECURSIVE IsSubsequence(_, _)
IsSubsequence(s, t) ==
  IF s = <<>> THEN TRUE
  ELSE IF t = <<>> THEN FALSE
  ELSE IF Head(s) = Head(t) THEN IsSubsequence(Tail(s), Tail(t))
  ELSE IsSubsequence(s, Tail(t))

\* the filter the mounted map component applies, on the present state
CurrentFilter ==
  IF mounted = "MapDirectional"
  THEN directionalFilter(geojsonData.features, latitude, longitude, heading)
  ELSE radiusFilter(geojsonData.features, latitude, longitude)

-----------------------------------------------------------------------------
(* Properties *)

\* C1: last run wins.  A playSound call made after a later call of
\* generateMusicFromBuildings belongs to that latest call: no event of an
\* earlier run fires once a new run has started.
C1_LastRunWins ==
  [][Len(fired') > Len(fired) => fired'[Len(fired')].run = Len(scheduled)]_vars

\* C2: a run starts only on an explicit trigger.  A step that handles a
\* position or heading sample may recompute the filtered set but starts no run.
C2_NoRunWithoutTrigger ==
  [][delivered'.kind \in {"position", "orientation"} => scheduled' = scheduled]_vars

\* C3: position hysteresis of LocationDisplay.  The first sample is accepted;
\* a later sample is accepted, and stored whole, iff its latitude or its
\* longitude is more than positionThreshold (0.0001 degree) away from the
\* stored one; any other sample changes nothing, whatever the stored values.
C3_PositionHysteresis ==
  [][(mounted = "LocationDisplay" /\ delivered'.kind = "position") =>
       IF \/ latitude = Null
          \/ longitude = Null
          \/ Abs(delivered'.latitude - latitude) > 100
          \/ Abs(delivered'.longitude - longitude) > 100
       THEN latitude' = delivered'.latitude /\ longitude' = delivered'.longitude
       ELSE latitude' = latitude /\ longitude' = longitude]_vars

\* C4: heading hysteresis of LocationDisplay is circular.  After a first
\* heading, a sample is accepted iff its circular distance to the stored
\* heading is more than headingThreshold (1 degree), a stored 0 included.
C4_HeadingCircular ==
  [][(mounted = "LocationDisplay" /\ delivered'.kind = "orientation"
        /\ delivered'.alpha # Null /\ heading # Null) =>
       IF CircularDistance(delivered'.alpha, heading) > 1 * Deg
       THEN heading' = delivered'.alpha
       ELSE heading' = heading]_vars

\* C5: selection predicate.  With data loaded and a position the filter has
\* run on, a building is in the filtered set iff it is within radiusKm and
\* (the policy is not directional or its bearing is within coneHalfWidthDeg of
\* the heading, circularly).
C5_SelectionPredicate ==
  (IsMap(mounted) /\ geojsonData.loaded /\ Truthy(latitude) /\ Truthy(longitude)) =>
    filteredBuildings =
      SelectedSeq(geojsonData.features, latitude, longitude, heading, Policy(mounted))

\* C6: directional degrade.  While no heading sample can have been accepted
\* (no deviceorientation listener was ever registered), the filtered set of
\* the directional component is the radius-only filtered set.
C6_DirectionalDegrade ==
  (mounted = "MapDirectional" /\ orientationListeners = 0 /\ geojsonData.loaded
     /\ Truthy(latitude) /\ Truthy(longitude)) =>
    filteredBuildings =
      SelectedSeq(geojsonData.features, latitude, longitude, Null, Policy(mounted))

\* C7: the filtered set is current.  With data loaded, the stored filtered set
\* is the component's filter applied to the stored position and heading.
C7_FilteredCurrent ==
  (IsMap(mounted) /\ geojsonData.loaded) => filteredBuildings = CurrentFilter

\* C8: no overlap within a run.  In every run the events have strictly
\* increasing offsetMs, and each starts no earlier than the previous one ends.
C8_NonOverlap ==
  \A r \in 1..Len(scheduled) :
    \A i \in 1..(Len(scheduled[r]) - 1) :
      /\ scheduled[r][i + 1].offsetMs > scheduled[r][i].offsetMs
      /\ scheduled[r][i + 1].offsetMs >= scheduled[r][i].offsetMs + scheduled[r][i].duration
C8_Witness ==
  /\ scheduled # <<>>
  /\ Len(LastRun) >= 3
  /\ \E i \in 1..(Len(LastRun) - 1) : LastRun[i + 1].index = LastRun[i].index + 1

\* C9: pitch mapping and the end-to-end scenario.  Every event of the last run
\* and every sound played has the pitch 100 + 2 * height of its building; with
\* the one-building data set (height 50) at the user's position the filtered
\* set has one entry and the run is one event of 200 Hz at offset 0.
C9_Pitch ==
  mounted = "MapSonify" =>
    /\ scheduled # <<>> =>
         \A i \in 1..Len(LastRun) :
           /\ LastRun[i].index < Len(filteredBuildings)
           /\ LastRun[i].frequency =
                100 + 2 * filteredBuildings[LastRun[i].index + 1].properties.measuredHeight
    /\ \A k \in 1..Len(fired) :
         \E i \in 1..Len(scheduled[fired[k].run]) :
           /\ scheduled[fired[k].run][i].index = fired[k].index
           /\ scheduled[fired[k].run][i].frequency = fired[k].frequency
    /\ (geojsonData.loaded /\ Len(geojsonData.features) = 1
          /\ latitude = 35689500 /\ longitude = 139691700) =>
         /\ Len(filteredBuildings) = 1
         /\ Len(scheduled) >= 1
         /\ Len(LastRun) = 1
         /\ LastRun[1].frequency = 200
         /\ LastRun[1].offsetMs = 0
C9_Witness ==
  /\ mounted = "MapSonify"
  /\ geojsonData.loaded /\ Len(geojsonData.features) = 1
  /\ latitude = 35689500 /\ longitude = 139691700
  /\ \E k \in 1..Len(fired) : fired[k].frequency = 200

\* C10: the filter is stable.  The filtered set is a subsequence of the
\* building set, and a run lays its events out in that order.
C10_StableFilter ==
  /\ IsSubsequence(filteredBuildings, geojsonData.features)
  /\ \A r \in 1..Len(scheduled) :
       \A i \in 1..(Len(scheduled[r]) - 1) :
         /\ scheduled[r][i].index < scheduled[r][i + 1].index
         /\ scheduled[r][i].offsetMs < scheduled[r][i + 1].offsetMs
C10_Witness ==
  /\ mounted = "MapSonify"
  /\ Len(filteredBuildings) >= 3
  /\ Len(filteredBuildings) < Len(geojsonData.features)
  /\ Len(scheduled) >= 2
  /\ Len(LastRun) >= 2

\* C11: a dataset failure is reported distinctly.  Once the load has failed
\* (no load is in flight and no data is there), the error state is the
\* dataset error, whatever sensor errors came later, and nothing has been
\* filtered or sonified.
C11_DatasetFailureDistinct ==
  (IsMap(mounted) /\ ~fetchPending /\ ~geojsonData.loaded) =>
    /\ error = DatasetError
    /\ filteredBuildings = <<>>
    /\ scheduled = <<>>

\* C12: bearing range.  The bearing calculateBearing gives from the stored
\* position to any building of the data set is in [0, 360), and it is 0 for a
\* building at the stored position itself.
C12_BearingRange ==
  (mounted = "MapDirectional" /\ geojsonData.loaded) =>
    \A i \in 1..Len(geojsonData.features) :
      /\ Bearing(latitude, longitude, DirectionalCoords(geojsonData.features[i])[1],
                 DirectionalCoords(geojsonData.features[i])[2]) >= 0
      /\ Bearing(latitude, longitude, DirectionalCoords(geojsonData.features[i])[1],
                 DirectionalCoords(geojsonData.features[i])[2]) < 360 * Deg
      /\ DirectionalCoords(geojsonData.features[i]) = <<latitude, longitude>> =>
           Bearing(latitude, longitude, latitude, longitude) = 0
\* a building at the user's position, and one whose bearing lies west of north
C12_Witness ==
  /\ mounted = "MapDirectional" /\ geojsonData.loaded
  /\ \E i \in 1..Len(geojsonData.features) :
       DirectionalCoords(geojsonData.features[i]) = <<latitude, longitude>>
  /\ \E i \in 1..Len(geojsonData.features) :
       Bearing(latitude, longitude, DirectionalCoords(geojsonData.features[i])[1],
               DirectionalCoords(geojsonData.features[i])[2]) > 180 * Deg

\* C13: offset timeline.  In every run the first event is at offsetMs 0 and
\* each later event is at the offset of the event before it plus that event's
\* duration plus the gap of 100 ms; a building without a height takes no time.
C13_OffsetTimeline ==
  \A r \in 1..Len(scheduled) :
    /\ scheduled[r] # <<>> => scheduled[r][1].offsetMs = 0
    /\ \A i \in 1..(Len(scheduled[r]) - 1) :
         scheduled[r][i + 1].offsetMs =
           scheduled[r][i].offsetMs + scheduled[r][i].duration + 100

\* C14: skip rule.  A run has one event for each filtered building that
\* carries a height, a height of 0 included, and none for the others.
C14_SkipRule ==
  (mounted = "MapSonify" /\ scheduled # <<>>) =>
    /\ Len(LastRun) =
         Cardinality({ i \in 1..Len(filteredBuildings) :
                         filteredBuildings[i].properties.measuredHeight # Null })
    /\ \A i \in 1..Len(filteredBuildings) :
         filteredBuildings[i].properties.measuredHeight # Null <=>
           \E k \in 1..Len(LastRun) : LastRun[k].index = i - 1

\* C15: whole-sample acceptance in LocationDisplay.  A position sample either
\* leaves the stored pair as it is or replaces it by the sample's own pair;
\* the stored pair is never the latitude of one sample and the longitude of
\* another.
C15_WholeSample ==
  [][(mounted = "LocationDisplay" /\ delivered'.kind = "position") =>
       \/ <<latitude', longitude'>> = <<latitude, longitude>>
       \/ <<latitude', longitude'>> = <<delivered'.latitude, delivered'.longitude>>]_vars

\* C16: an orientation sample without a heading is dropped silently.  A step
\* that handles a sample whose alpha is null changes neither the stored
\* heading, nor the view state, nor the filtered set, nor the error state, and
\* starts no run.
C16_NullHeadingDropped ==
  [][(delivered'.kind = "orientation" /\ delivered'.alpha = Null) =>
       UNCHANGED <<heading, viewState, filteredBuildings, error, scheduled, timers>>]_vars
\* a null sample handled by a map component that has buildings and a heading
C16_Witness ==
  /\ delivered = OrientationSample(Null)
  /\ IsMap(mounted) /\ filteredBuildings # <<>>
  /\ heading # InitialBearing

\* C17: sensor subscription lifecycle.  At most one geolocation watch and at
\* most one deviceorientation listener is registered at any time, and once the
\* component has unmounted none is registered, a permission request that
\* settles after the cleanup included.
C17_SubscriptionLifecycle ==
  /\ geolocationWatches <= 1
  /\ orientationListeners <= 1
  /\ unmounted => (geolocationWatches = 0 /\ orientationListeners = 0)

\* the timers of run r that are pending, the playSound calls of run r so far
PendingOf(r) == { t \in timers : t.run = r }
FiredOf(r) == { k \in 1..Len(fired) : fired[k].run = r }
\* every event of run r has fired and none of its timers is pending
Completed(r) ==
  /\ PendingOf(r) = {}
  /\ \A i \in 1..Len(scheduled[r]) :
       \E k \in FiredOf(r) : fired[k].index = scheduled[r][i].index

\* C18: run completion.  Of the latest run, every event is pending or has
\* fired, never both and never twice, and its events fire in increasing
\* offsetMs order; if from some time on no run is started, then under fair
\* timers the latest run eventually has fired every event and none of its
\* timers is pending, for good.
C18_RunCompletion ==
  /\ [](scheduled # <<>> =>
         /\ \A i \in 1..Len(LastRun) :
              Cardinality({ t \in PendingOf(Len(scheduled)) : t.index = LastRun[i].index })
              + Cardinality({ k \in FiredOf(Len(scheduled)) : fired[k].index = LastRun[i].index })
              = 1
         /\ \A k, l \in FiredOf(Len(scheduled)) :
              k < l => fired[k].index < fired[l].index)
  /\ <>[][scheduled' = scheduled]_vars =>
       <>[](scheduled = <<>> \/ Completed(Len(scheduled)))
\* a run of three events has completed
C18_Witness ==
  /\ scheduled # <<>>
  /\ Len(LastRun) >= 3
  /\ Completed(Len(scheduled))
  /\ Cardinality(FiredOf(Len(scheduled))) = 3

=============================================================================
